---- MODULE Spec2Model ----
(***************************************************************************)
(* The monitoring engine of app.py: the baseline-tracking price alerts,    *)
(* the sentiment aggregation of sentiment.py and the persistence of the    *)
(* latest-analysis document by export_data.py.                             *)
(*                                                                         *)
(* Numbers.  Prices are integers in thousandths of a dollar.  A ratio such *)
(* as the cumulative change (current - baseline) / baseline is kept exact, *)
(* as a record [num, den]; comparisons cross-multiply.  Confidences and    *)
(* sentiment scores are fixed-point with FP units to 1.0.  Python dicts    *)
(* are functions whose DOMAIN is the set of keys present; None is the      *)
(* empty sequence and a present optional value v is <<v>>.  Wall-clock     *)
(* readings (datetime.now, time.time) are the number of the running cycle. *)
(***************************************************************************)
EXTENDS Integers, Sequences, FiniteSets, TLC

VARIABLES
    PRICE_THRESH,     \* app.py:21, thousandths (5 = 0.005); read once from the environment
    LAST_ALERT,       \* app.py:40, dict symbol -> time of its last price alert
    BASELINE_PRICES,  \* app.py:41, dict symbol -> baseline price
    LATEST_ANALYSIS,  \* app.py:42, dict symbol -> snapshot entry
    prices,           \* run_cycle_async: the dict returned by get_prices
    results,          \* run_cycle_async: results of the analyze_symbol tasks finished so far
    pc,               \* position of run_loop / run_cycle_async
    i,                \* position of the price loop (app.py:90) in prices.items()
    j,                \* position of the store loop (app.py:119) in WATCH
    cycle,            \* number of cycles started by run_loop
    alerts,           \* PriceAlerts handed to emit() in the running cycle, in order
    file,             \* latest_analysis.json
    arg,              \* inputs of the pure function under check
    ret               \* its result, <<>> until applied

vars == <<PRICE_THRESH, LAST_ALERT, BASELINE_PRICES, LATEST_ANALYSIS, prices,
          results, pc, i, j, cycle, alerts, file, arg, ret>>

engineVars == <<PRICE_THRESH, LAST_ALERT, BASELINE_PRICES, LATEST_ANALYSIS, prices,
                results, pc, i, j, cycle, alerts, file>>

-----------------------------------------------------------------------------
(* Bounds and inputs *)

MaxCycles == 3

WATCH == <<"AAPL", "NVDA">>

Symbols == {WATCH[k] : k \in 1..Len(WATCH)}

\* Thresholds the environment may configure, in thousandths.
ThreshChoices == {0, 5}

\* Closing prices a quote may carry, in thousandths of a dollar.
Prices == {100000, 100004, 100500}

\* What the two text fetches of one symbol may bring back: the per-text
\* sentiment scores of the news titles and of the reddit texts, in FP units.
\* A failed fetch brings back the empty list.
TextBatches == { [news |-> << >>, reddit |-> << >>],
                 [news |-> <<8000>>, reddit |-> <<-8000, -8000>>] }

-----------------------------------------------------------------------------
(* Arithmetic helpers *)

Abs(x) == IF x < 0 THEN -x ELSE x

\* dict[key] = value
Put(d, k, v) == [x \in (DOMAIN d) \cup {k} |-> IF x = k THEN v ELSE d[x]]

\* Python round(n/d, 0) for d > 0: round half to even.
RoundHalfEven(n, d) ==
    LET q == n \div d
        r == n % d
    IN  IF 2 * r < d THEN q
        ELSE IF 2 * r > d THEN q + 1
        ELSE IF q % 2 = 0 THEN q ELSE q + 1

Zero == [num |-> 0, den |-> 1]

\* The float (a - b) / b for b # 0, sign carried by num.
Ratio(a, b) == IF a = b THEN Zero
               ELSE IF b < 0 THEN [num |-> b - a, den |-> -b]
               ELSE [num |-> a - b, den |-> b]

-----------------------------------------------------------------------------
(* sentiment.py *)

FP == 10000

BUY_THRESH == 6500

SELL_THRESH == 3500

RECURSIVE SumSeq(_)
SumSeq(s) == IF s = << >> THEN 0 ELSE Head(s) + SumSeq(Tail(s))

\* math.exp(y / FP) for y >= 0 as the power series, term k+1 = term k * y / (k+1).
RECURSIVE ExpSeries(_, _, _)
ExpSeries(y, k, term) ==
    IF term = 0 THEN 0
    ELSE term + ExpSeries(y, k + 1, (term * y) \div ((k + 1) * FP))

Exp(y) == IF y >= 0 THEN ExpSeries(y, 0, FP)
          ELSE (FP * FP) \div ExpSeries(-y, 0, FP)

\* 1 / (1 + math.exp(-x))
sigmoid(x) == (FP * FP) \div (FP + Exp(-x))

\* math.log(1 + n) / math.log(51) for n = 1..60, in FP units.
LOG_RATIO == <<
    1763, 2794, 3526, 4093, 4557, 4949, 5289, 5588, 5856, 6099,
    6320, 6524, 6712, 6888, 7052, 7206, 7351, 7489, 7619, 7743,
    7862, 7975, 8083, 8187, 8286, 8382, 8475, 8564, 8650, 8734,
    8815, 8893, 8969, 9042, 9114, 9184, 9252, 9318, 9382, 9445,
    9506, 9566, 9625, 9682, 9738, 9792, 9846, 9898, 9950, 10000,
    10049, 10098, 10145, 10192, 10238, 10283, 10327, 10371, 10413, 10455 >>

LogRatio(n) == IF n <= Len(LOG_RATIO) THEN LOG_RATIO[n] ELSE LOG_RATIO[Len(LOG_RATIO)]

Min(a, b) == IF a <= b THEN a ELSE b

\* The volume weighting without its cap at 1.0
reliability_uncapped(n) == LogRatio(n)

reliability(n) == Min(FP, LogRatio(n))

\* final_confidence = 0.5 + (base_confidence - 0.5) * reliability
final_confidence(avg_sentiment, n) ==
    FP \div 2 + RoundHalfEven((sigmoid(2 * avg_sentiment) - FP \div 2) * reliability(n), FP)

\* The decision rule with the SELL test first
Decide_sell_first(conf, buy, sell) ==
    IF conf <= sell THEN "SELL"
    ELSE IF conf >= buy THEN "BUY"
    ELSE "HOLD"

\* The decision rule, evaluated in the order of the code.
Decide(conf, buy, sell) ==
    IF conf >= buy THEN "BUY"
    ELSE IF conf <= sell THEN "SELL"
    ELSE "HOLD"

\* batch_score_texts: one score per text, none for no texts.  A batch is
\* given by the scores the classifier assigns to its texts.
batch_score_texts(texts) == texts

\* sum(1 for s in scores if s > 0)
CountPositive(scores) == Cardinality({k \in 1..Len(scores) : scores[k] > 0})

\* sum(1 for s in scores if s < 0)
CountNegative(scores) == Cardinality({k \in 1..Len(scores) : scores[k] < 0})

\* analyze answering an empty score list with a neutral result instead of None
analyze_default(news_titles, reddit_texts, buy, sell) ==
    << [decision |-> "HOLD", confidence |-> 500,
        news_count |-> Len(news_titles), reddit_count |-> Len(reddit_texts),
        total_analyzed |-> Len(news_titles) + Len(reddit_texts),
        positive |-> 0, negative |-> 0, avg_sentiment |-> 0] >>

\* analyze: None for an empty score list, else the result dict.
analyze(news_titles, reddit_texts, buy, sell) ==
    LET all_scores == batch_score_texts(news_titles) \o batch_score_texts(reddit_texts)
        n == Len(all_scores)
        avg_sentiment == RoundHalfEven(SumSeq(all_scores), n)
        conf == final_confidence(avg_sentiment, n)
    IN  IF all_scores = << >> THEN << >>
        ELSE << [decision |-> Decide(conf, buy, sell),
                 confidence |-> RoundHalfEven(conf * 1000, FP),
                 news_count |-> Len(news_titles),
                 reddit_count |-> Len(reddit_texts),
                 total_analyzed |-> n,
                 positive |-> CountPositive(all_scores),
                 negative |-> CountNegative(all_scores),
                 avg_sentiment |-> RoundHalfEven(avg_sentiment * 1000, FP)] >>

-----------------------------------------------------------------------------
(* app.py: baseline tracking *)

EmptyDict == [x \in {} |-> 0]

\* reset_baseline that records the alert time and leaves the baseline alone
reset_baseline_stale(B, L, symbol, price, now) ==
    [baselines |-> B, last_alert |-> Put(L, symbol, now)]

\* reset_baseline that stores the price as the alert shows it, to the cent
reset_baseline_rounded(B, L, symbol, price, now) ==
    [baselines |-> Put(B, symbol, RoundHalfEven(price, 10) * 10),
     last_alert |-> Put(L, symbol, now)]

\* reset_baseline(symbol, price), at time now
reset_baseline(B, L, symbol, price, now) ==
    [baselines |-> Put(B, symbol, price), last_alert |-> Put(L, symbol, now)]

\* get_cumulative_change that moves the baseline to every price it is given
get_cumulative_change_tracking(B, symbol, current_price) ==
    IF symbol \notin DOMAIN B
    THEN [raises |-> FALSE, baselines |-> Put(B, symbol, current_price), value |-> Zero]
    ELSE IF B[symbol] = 0
    THEN [raises |-> TRUE, baselines |-> B, value |-> Zero]
    ELSE [raises |-> FALSE, baselines |-> Put(B, symbol, current_price),
          value |-> Ratio(current_price, B[symbol])]

\* get_cumulative_change(symbol, current_price) on the baselines B: whether
\* the division raises ZeroDivisionError, the baselines it leaves, and the
\* value it returns.
get_cumulative_change(B, symbol, current_price) ==
    IF symbol \notin DOMAIN B
    THEN [raises |-> FALSE, baselines |-> Put(B, symbol, current_price), value |-> Zero]
    ELSE IF B[symbol] = 0
    THEN [raises |-> TRUE, baselines |-> B, value |-> Zero]
    ELSE [raises |-> FALSE, baselines |-> B, value |-> Ratio(current_price, B[symbol])]

\* should_alert_price with a strict comparison
should_alert_price_strict(change_pct, threshold) ==
    Abs(change_pct.num) * 1000 > threshold * change_pct.den

\* should_alert_price: abs(change_pct) >= threshold, threshold in thousandths
should_alert_price(change_pct, threshold) ==
    Abs(change_pct.num) * 1000 >= threshold * change_pct.den

\* The PriceAlert record built at app.py:105-111
PriceAlert(symbol, cumulative_change, current_price, baseline, now) ==
    [type |-> "price", symbol |-> symbol,
     direction |-> IF cumulative_change.num > 0 THEN "up" ELSE "down",
     change_pct |-> RoundHalfEven(cumulative_change.num * 10000, cumulative_change.den),
     price |-> RoundHalfEven(current_price, 10),
     prev_close |-> RoundHalfEven(baseline, 10),
     ts |-> now]

-----------------------------------------------------------------------------
(* data_sources.py *)

\* get_prices: a symbol whose quote cannot be had is left out of the dict.
get_prices == UNION {[S -> Prices] : S \in SUBSET Symbols}

\* The keys of a dict iterated from the last inserted to the first
Keys_reversed(d) ==
    LET k == SelectSeq(WATCH, LAMBDA s : s \in DOMAIN d)
    IN  [n \in 1..Len(k) |-> k[Len(k) + 1 - n]]

\* The keys of a dict filled in watch-list order, in iteration order.
Keys(d) == SelectSeq(WATCH, LAMBDA s : s \in DOMAIN d)

-----------------------------------------------------------------------------
(* export_data.py *)

NoFile == [status |-> "absent", timestamp |-> 0, symbols |-> EmptyDict]

Truncated == [status |-> "empty", timestamp |-> 0, symbols |-> EmptyDict]

\* The document json.dump writes.
export_data(latest_analysis, now) ==
    [status |-> "complete", timestamp |-> now, symbols |-> latest_analysis]

-----------------------------------------------------------------------------
(* app.py: run_loop and run_cycle_async *)

Init ==
    /\ PRICE_THRESH \in ThreshChoices
    /\ LAST_ALERT = EmptyDict
    /\ BASELINE_PRICES = EmptyDict
    /\ LATEST_ANALYSIS = EmptyDict
    /\ prices = EmptyDict
    /\ results = EmptyDict
    /\ pc = "idle"
    /\ i = 1
    /\ j = 1
    /\ cycle = 0
    /\ alerts = << >>
    /\ file = NoFile
    /\ arg = << >>
    /\ ret = << >>

\* A scheduler that starts a due cycle while the previous one is still exporting
CanStartCycle_overlap == pc \in {"idle", "dump"}

\* run_loop may start a cycle: the first call, or a due job in run_pending.
CanStartCycle == pc = "idle"

\* run_cycle -> run_cycle_async up to the price loop (app.py:82-87)
StartCycle ==
    /\ CanStartCycle
    /\ cycle < MaxCycles
    /\ cycle' = cycle + 1
    /\ \E q \in get_prices :
          /\ prices' = q
          /\ pc' = IF Keys(q) = << >> THEN "gather" ELSE "prices"
    /\ i' = 1
    /\ j' = 1
    /\ alerts' = << >>
    /\ results' = EmptyDict
    /\ UNCHANGED <<PRICE_THRESH, LAST_ALERT, BASELINE_PRICES, LATEST_ANALYSIS, file, arg, ret>>

\* One iteration of the price loop (app.py:90-114)
PriceStep ==
    /\ pc = "prices"
    /\ LET symbol == Keys(prices)[i]
           current_price == prices[symbol]
           g == get_cumulative_change(BASELINE_PRICES, symbol, current_price)
           cumulative_change == g.value
           baseline == g.baselines[symbol]
           r == reset_baseline(g.baselines, LAST_ALERT, symbol, current_price, cycle)
       IN  IF g.raises
           THEN /\ pc' = "crashed"
                /\ UNCHANGED <<BASELINE_PRICES, LAST_ALERT, alerts, i>>
           ELSE /\ IF should_alert_price(cumulative_change, PRICE_THRESH)
                   THEN /\ alerts' = Append(alerts,
                               PriceAlert(symbol, cumulative_change, current_price, baseline, cycle))
                        /\ BASELINE_PRICES' = r.baselines
                        /\ LAST_ALERT' = r.last_alert
                   ELSE /\ BASELINE_PRICES' = g.baselines
                        /\ UNCHANGED <<LAST_ALERT, alerts>>
                /\ i' = i + 1
                /\ pc' = IF i = Len(Keys(prices)) THEN "gather" ELSE "prices"
    /\ UNCHANGED <<PRICE_THRESH, LATEST_ANALYSIS, prices, results, j, cycle, file, arg, ret>>

\* analyze_symbol tasks started before the price loop has finished
CanAnalyze_early == pc \in {"prices", "gather"}

\* The analyze_symbol tasks may run once the gather of app.py:117 is reached.
CanAnalyze == pc = "gather"

\* One analyze_symbol task (app.py:64-75): a failed fetch is an empty batch.
AnalyzeSymbol(symbol) ==
    /\ CanAnalyze
    /\ symbol \notin DOMAIN results
    /\ \E fetched \in TextBatches :
          results' = Put(results, symbol,
                         [result |-> analyze(fetched.news, fetched.reddit,
                                             BUY_THRESH, SELL_THRESH),
                          news_titles |-> fetched.news,
                          reddit_texts |-> fetched.reddit])
    /\ pc' = IF DOMAIN results' = Symbols THEN "store" ELSE "gather"
    /\ UNCHANGED <<PRICE_THRESH, LAST_ALERT, BASELINE_PRICES, LATEST_ANALYSIS, prices,
                   i, j, cycle, alerts, file, arg, ret>>

\* The entry written at app.py:125-139
Entry(result, price, change, now) ==
    [decision |-> result.decision,
     confidence |-> result.confidence,
     price |-> price,
     change_from_baseline |-> [num |-> change.num * 100, den |-> change.den],
     news_count |-> result.news_count,
     reddit_count |-> result.reddit_count,
     positive |-> result.positive,
     negative |-> result.negative,
     avg_sentiment |-> result.avg_sentiment,
     last_updated |-> now]

\* One iteration of the store loop (app.py:119-142)
StoreStep ==
    /\ pc = "store"
    /\ LET symbol == WATCH[j]
           result == results[symbol].result
           price == IF symbol \in DOMAIN prices THEN <<prices[symbol]>> ELSE << >>
           g == get_cumulative_change(BASELINE_PRICES, symbol,
                                      IF price = << >> THEN 0 ELSE price[1])
           next == /\ j' = j + 1
                   /\ pc' = IF j = Len(WATCH) THEN "export" ELSE "store"
       IN  IF result = << >>
           THEN /\ next
                /\ UNCHANGED <<BASELINE_PRICES, LATEST_ANALYSIS>>
           ELSE IF g.raises
           THEN /\ pc' = "crashed"
                /\ UNCHANGED <<BASELINE_PRICES, LATEST_ANALYSIS, j>>
           ELSE /\ BASELINE_PRICES' = g.baselines
                /\ LATEST_ANALYSIS' = Put(LATEST_ANALYSIS, symbol,
                                          Entry(result[1], price, g.value, cycle))
                /\ next
    /\ UNCHANGED <<PRICE_THRESH, LAST_ALERT, prices, results, i, cycle, alerts, file, arg, ret>>

\* export_to_json: open(filepath, 'w') truncates the file (export_data.py:19)
ExportOpen ==
    /\ pc = "export"
    /\ file' = Truncated
    /\ pc' = "dump"
    /\ UNCHANGED <<PRICE_THRESH, LAST_ALERT, BASELINE_PRICES, LATEST_ANALYSIS, prices,
                   results, i, j, cycle, alerts, arg, ret>>

\* export_to_json: json.dump and close (export_data.py:20); run_cycle_async
\* returns and its locals are gone
ExportDump ==
    /\ pc = "dump"
    /\ file' = export_data(LATEST_ANALYSIS, cycle)
    /\ pc' = "idle"
    /\ prices' = EmptyDict
    /\ results' = EmptyDict
    /\ alerts' = << >>
    /\ i' = 1
    /\ j' = 1
    /\ UNCHANGED <<PRICE_THRESH, LAST_ALERT, BASELINE_PRICES, LATEST_ANALYSIS,
                   cycle, arg, ret>>

Next ==
    \/ StartCycle
    \/ PriceStep
    \/ \E symbol \in Symbols : AnalyzeSymbol(symbol)
    \/ StoreStep
    \/ ExportOpen
    \/ ExportDump

Spec == Init /\ [][Next]_vars

-----------------------------------------------------------------------------
(* The decision rule on its own: every confidence against every pair of   *)
(* thresholds.                                                             *)

ConfValues == {k * 500 : k \in 0..20}

DecideThresholds == {3500, 5000, 6500}

InitDecide ==
    /\ PRICE_THRESH = 5
    /\ LAST_ALERT = EmptyDict
    /\ BASELINE_PRICES = EmptyDict
    /\ LATEST_ANALYSIS = EmptyDict
    /\ prices = EmptyDict
    /\ results = EmptyDict
    /\ pc = "idle"
    /\ i = 1
    /\ j = 1
    /\ cycle = 0
    /\ alerts = << >>
    /\ file = NoFile
    /\ arg \in [conf : ConfValues, buy : DecideThresholds, sell : DecideThresholds]
    /\ ret = << >>

ApplyDecide ==
    /\ ret = << >>
    /\ ret' = << Decide(arg.conf, arg.buy, arg.sell) >>
    /\ UNCHANGED <<engineVars, arg>>

NextDecide == ApplyDecide

SpecDecide == InitDecide /\ [][NextDecide]_vars

-----------------------------------------------------------------------------
(* A reader of latest_analysis.json in another process, next to the engine *)

\* load_latest_analysis: the symbols of the document, or a failure when the
\* file is missing or does not parse (alexa_server.py raises, interactive_cli.py
\* returns None).
load_latest_analysis(f) ==
    IF f.status = "complete"
    THEN [failed |-> FALSE, symbols |-> f.symbols]
    ELSE [failed |-> TRUE, symbols |-> EmptyDict]

InitReader ==
    /\ PRICE_THRESH = 5
    /\ LAST_ALERT = EmptyDict
    /\ BASELINE_PRICES = EmptyDict
    /\ LATEST_ANALYSIS = EmptyDict
    /\ prices = EmptyDict
    /\ results = EmptyDict
    /\ pc = "idle"
    /\ i = 1
    /\ j = 1
    /\ cycle = 0
    /\ alerts = << >>
    /\ file = NoFile
    /\ arg = << >>
    /\ ret = << >>

\* One request served by alexa_server.py, or one query of interactive_cli.py
ReadLatest ==
    /\ ret' = << load_latest_analysis(file) >>
    /\ UNCHANGED <<engineVars, arg>>

NextReader == Next \/ ReadLatest

SpecReader == InitReader /\ [][NextReader]_vars

-----------------------------------------------------------------------------
(* sentiment.py: explain_topics on its own.  A text is the set of the       *)
(* vocabulary words it contains (word in text_lower); a Counter is its keys  *)
(* in insertion order with the count of each; the returned dict is the       *)
(* sequence of its items in insertion order, values in thousandths.          *)

MaxTexts == 2

\* the first six words of news_vocab
Vocab == <<"etf", "approval", "ban", "partnership", "surge", "drop">>

VocabWords == {Vocab[k] : k \in 1..Len(Vocab)}

TextLists == UNION {[1..n -> SUBSET VocabWords] : n \in 0..MaxTexts}

\* counter[word] += 1
Incr(counter, word) ==
    IF word \in DOMAIN counter.n
    THEN [keys |-> counter.keys, n |-> Put(counter.n, word, counter.n[word] + 1)]
    ELSE [keys |-> Append(counter.keys, word), n |-> Put(counter.n, word, 1)]

\* for word in vocab: if word in text_lower: counter[word] += 1
RECURSIVE CountText(_, _, _)
CountText(counter, text, k) ==
    IF k > Len(Vocab) THEN counter
    ELSE CountText(IF Vocab[k] \in text THEN Incr(counter, Vocab[k]) ELSE counter,
                   text, k + 1)

\* for text in texts: ...
RECURSIVE CountTexts(_, _, _)
CountTexts(counter, texts, t) ==
    IF t > Len(texts) THEN counter
    ELSE CountTexts(CountText(counter, texts[t], 1), texts, t + 1)

KeyIndex(keys, word) == CHOOSE k \in 1..Len(keys) : keys[k] = word

\* Counter.most_common(n): the items by count, highest first, items of equal
\* count in the order the Counter first saw them; the first n of them.
most_common(counter, n) ==
    LET keys == counter.keys
        Before(a, b) ==
            \/ counter.n[a] > counter.n[b]
            \/ counter.n[a] = counter.n[b] /\ KeyIndex(keys, a) < KeyIndex(keys, b)
        Place(w) == 1 + Cardinality({v \in DOMAIN counter.n : Before(v, w)})
        sorted == [r \in 1..Len(keys) |-> CHOOSE w \in DOMAIN counter.n : Place(w) = r]
    IN  SubSeq(sorted, 1, Min(n, Len(keys)))

explain_topics(texts) ==
    LET counter == CountTexts([keys |-> << >>, n |-> EmptyDict], texts, 1)
        top_topics == most_common(counter, 5)
        counted == SumSeq([k \in 1..Len(counter.keys) |-> counter.n[counter.keys[k]]])
        total == IF counted = 0 THEN 1 ELSE counted
    IN  [k \in 1..Len(top_topics) |->
            [word |-> top_topics[k],
             value |-> RoundHalfEven(counter.n[top_topics[k]] * 1000, total)]]

EngineAtRest ==
    /\ PRICE_THRESH = 5
    /\ LAST_ALERT = EmptyDict
    /\ BASELINE_PRICES = EmptyDict
    /\ LATEST_ANALYSIS = EmptyDict
    /\ prices = EmptyDict
    /\ results = EmptyDict
    /\ pc = "idle"
    /\ i = 1
    /\ j = 1
    /\ cycle = 0
    /\ alerts = << >>
    /\ file = NoFile

InitTopics ==
    /\ EngineAtRest
    /\ arg \in TextLists
    /\ ret = << >>

ApplyTopics ==
    /\ ret = << >>
    /\ ret' = << explain_topics(arg) >>
    /\ UNCHANGED <<engineVars, arg>>

NextTopics == ApplyTopics

SpecTopics == InitTopics /\ [][NextTopics]_vars

-----------------------------------------------------------------------------
(* sentiment.py: final_confidence on its own, one average sentiment against *)
(* two sample counts m < n.                                                  *)

MaxSamples == 52

AvgChoices == {-8000, -2000, 2000, 8000}

\* The sample count from which math.log(1 + n) / math.log(51) reaches 1.0
FullVolume == CHOOSE n \in 1..Len(LOG_RATIO) : LOG_RATIO[n] = FP

InitConfidence ==
    /\ EngineAtRest
    /\ arg \in {a \in [avg : AvgChoices, m : 1..MaxSamples, n : 1..MaxSamples] : a.m < a.n}
    /\ ret = << >>

ApplyConfidence ==
    /\ ret = << >>
    /\ ret' = << [m |-> final_confidence(arg.avg, arg.m),
                  n |-> final_confidence(arg.avg, arg.n)] >>
    /\ UNCHANGED <<engineVars, arg>>

NextConfidence == ApplyConfidence

SpecConfidence == InitConfidence /\ [][NextConfidence]_vars

-----------------------------------------------------------------------------
(* interactive_cli.py: the loop of main.  arg is the input side: the number *)
(* of lines read, the line last read, and the numbers of the queries asked   *)
(* since the conversation was last cleared (kept for the properties only).   *)
(* ret is the loop's own state: conversation_history and whether the loop is *)
(* still running.  A line of text is told apart by its number.               *)

MaxInputs == 12

HistoryLimit == 20

ExitCommands == {"exit", "quit", "bye", "stop"}

ClearCommands == {"clear", "reset", "restart"}

\* handle_query: the warning when there is no document, else the reply of
\* have_conversation
handle_query(latest_analysis) ==
    IF latest_analysis.failed THEN "no data available" ELSE "reply"

UserMessage(k) == [role |-> "user", content |-> k]

AssistantMessage(k, response) == [role |-> "assistant", content |-> <<k, response>>]

\* The trimming that keeps the first 20 messages
Trim_head(history) ==
    IF Len(history) > HistoryLimit
    THEN SubSeq(history, 1, HistoryLimit)
    ELSE history

\* if len(conversation_history) > 20: conversation_history = conversation_history[-20:]
Trim(history) ==
    IF Len(history) > HistoryLimit
    THEN SubSeq(history, Len(history) - HistoryLimit + 1, Len(history))
    ELSE history

InitCli ==
    /\ PRICE_THRESH = 5
    /\ LAST_ALERT = EmptyDict
    /\ BASELINE_PRICES = EmptyDict
    /\ LATEST_ANALYSIS = EmptyDict
    /\ prices = EmptyDict
    /\ results = EmptyDict
    /\ pc = "idle"
    /\ i = 1
    /\ j = 1
    /\ cycle = 0
    /\ alerts = << >>
    /\ file \in {NoFile, export_data(EmptyDict, 1)}
    /\ arg = [n |-> 0, user_input |-> "", queries |-> << >>]
    /\ ret = [conversation_history |-> << >>, running |-> TRUE]

CanRead == ret.running /\ arg.n < MaxInputs

\* if not user_input: continue
EmptyInput ==
    /\ CanRead
    /\ arg' = [arg EXCEPT !.n = @ + 1, !.user_input = ""]
    /\ UNCHANGED <<engineVars, ret>>

\* exit, quit, bye, stop: break
ExitLoop ==
    /\ CanRead
    /\ \E word \in ExitCommands :
          arg' = [arg EXCEPT !.n = @ + 1, !.user_input = word]
    /\ ret' = [ret EXCEPT !.running = FALSE]
    /\ UNCHANGED engineVars

\* clear, reset, restart: conversation_history = []
ClearHistory ==
    /\ CanRead
    /\ \E word \in ClearCommands :
          arg' = [n |-> arg.n + 1, user_input |-> word, queries |-> << >>]
    /\ ret' = [ret EXCEPT !.conversation_history = << >>]
    /\ UNCHANGED engineVars

\* any other line: load, handle_query, append both messages, trim
HandleQuery ==
    /\ CanRead
    /\ LET k == arg.n + 1
           latest_analysis == load_latest_analysis(file)
           response == handle_query(latest_analysis)
           appended == ret.conversation_history
                          \o << UserMessage(k), AssistantMessage(k, response) >>
       IN  /\ arg' = [n |-> k, user_input |-> "text", queries |-> Append(arg.queries, k)]
           /\ ret' = [ret EXCEPT !.conversation_history = Trim(appended)]
    /\ UNCHANGED engineVars

NextCli == EmptyInput \/ ExitLoop \/ ClearHistory \/ HandleQuery

SpecCli == InitCli /\ [][NextCli]_vars

-----------------------------------------------------------------------------
(* Properties *)

\* The symbol the price loop is at, and its quote.
CurSymbol == Keys(prices)[i]

CurPrice == prices[CurSymbol]

\* A step that hands one more PriceAlert to emit().
AlertFired == Len(alerts') = Len(alerts) + 1

\* C1: for an observation of a symbol with a stored (non-zero) baseline, the
\* price step emits a price alert iff abs((current_price - baseline) / baseline)
\* >= PRICE_THRESH, and right after an alert the baseline is that
\* current_price itself.
C1_AlertIffThresholdReached ==
    [][ (pc = "prices" /\ CurSymbol \in DOMAIN BASELINE_PRICES
                       /\ BASELINE_PRICES[CurSymbol] # 0)
        => LET baseline == BASELINE_PRICES[CurSymbol]
           IN  /\ AlertFired <=>
                     Abs(CurPrice - baseline) * 1000 >= PRICE_THRESH * Abs(baseline)
               /\ AlertFired =>
                     /\ alerts'[Len(alerts')].symbol = CurSymbol
                     /\ BASELINE_PRICES'[CurSymbol] = CurPrice
               /\ ~AlertFired => alerts' = alerts ]_vars

\* An alert was emitted for a move away from an earlier baseline, and the
\* baseline now is the price that alerted.
C1_Witness ==
    /\ pc \in {"prices", "gather"}
    /\ PRICE_THRESH > 0
    /\ alerts # << >>
    /\ LET a == alerts[Len(alerts)]
       IN  /\ a.price # a.prev_close
           /\ BASELINE_PRICES[a.symbol] = prices[a.symbol]

\* C2: whatever the threshold, the first observation of a symbol (no baseline
\* stored) stores the observed price as the baseline and emits no price alert.
C2_FirstObservationNeverAlerts ==
    [][ (pc = "prices" /\ CurSymbol \notin DOMAIN BASELINE_PRICES)
        => /\ alerts' = alerts
           /\ CurSymbol \in DOMAIN BASELINE_PRICES'
           /\ BASELINE_PRICES'[CurSymbol] = CurPrice ]_vars

BaselineChanged(s) ==
    /\ s \in DOMAIN BASELINE_PRICES'
    /\ s \notin DOMAIN BASELINE_PRICES \/ BASELINE_PRICES[s] # BASELINE_PRICES'[s]

\* C3: a baseline is only ever set by the price step, to the price observed
\* there, when it is the symbol's first observation or its alert fires; so it
\* is always the price of the last alert or else the first price observed.
C3_BaselineIsAlertOrFirstPrice ==
    [][ \A s \in Symbols :
          BaselineChanged(s)
          => /\ pc = "prices"
             /\ s = CurSymbol
             /\ BASELINE_PRICES'[s] = CurPrice
             /\ s \notin DOMAIN BASELINE_PRICES \/ AlertFired ]_vars

\* Both text batches of a symbol came back empty in the running cycle.
EmptyTexts(s) == results[s].news_titles = << >> /\ results[s].reddit_texts = << >>

\* Dict d2 has for key s exactly what dict d1 has: the same entry, or none.
SameEntry(d1, d2, s) ==
    IF s \in DOMAIN d1 THEN s \in DOMAIN d2 /\ d2[s] = d1[s] ELSE s \notin DOMAIN d2

\* C4: for a symbol whose combined score list is empty, analyze returns None,
\* the store loop leaves its LATEST_ANALYSIS entry as it was, and the document
\* written at the end of the cycle carries that earlier entry.
C4_EmptyBatchKeepsEntry ==
    [][ /\ (pc = "store" /\ EmptyTexts(WATCH[j]))
           => /\ results[WATCH[j]].result = << >>
              /\ SameEntry(LATEST_ANALYSIS, LATEST_ANALYSIS', WATCH[j])
        /\ pc = "dump"
           => \A s \in Symbols :
                 EmptyTexts(s)
                 => /\ SameEntry(LATEST_ANALYSIS, file'.symbols, s)
                    /\ s \in DOMAIN LATEST_ANALYSIS
                       => LATEST_ANALYSIS[s].last_updated < cycle ]_vars

\* A complete document that carries an entry of an earlier cycle.
C4_Witness ==
    /\ file.status = "complete"
    /\ file.timestamp = cycle
    /\ \E s \in DOMAIN file.symbols : file.symbols[s].last_updated < file.timestamp

\* The price the store loop passes to get_cumulative_change (app.py:129).
StorePrice(s) == IF s \in DOMAIN prices THEN prices[s] ELSE 0

\* C5: get_cumulative_change is never about to divide by a zero baseline,
\* neither in the price loop nor in the store loop.
C5_NoDivisionByZeroBaseline ==
    /\ pc = "prices"
       => ~get_cumulative_change(BASELINE_PRICES, CurSymbol, CurPrice).raises
    /\ (pc = "store" /\ results[WATCH[j]].result # << >>)
       => ~get_cumulative_change(BASELINE_PRICES, WATCH[j], StorePrice(WATCH[j])).raises

\* C6: the monitoring loop is never ended by an exception out of a cycle.
C6_LoopNeverTerminates == pc # "crashed"

\* C7: when the quote of exactly one symbol is missing in a cycle, the store
\* step of that symbol does not abort the cycle: the symbols after it and the
\* export are still reached.
C7_MissingPriceDoesNotAbort ==
    [][ (pc = "store" /\ Symbols \ DOMAIN prices = {WATCH[j]}) => pc' # "crashed" ]_vars

\* C8: the decision is BUY iff confidence >= buy, SELL iff that fails and
\* confidence <= sell, HOLD iff both fail; exactly one of the three.
C8_DecisionPartition ==
    ret # << >>
    => LET d == ret[1]
       IN  /\ d \in {"BUY", "SELL", "HOLD"}
           /\ d = "BUY" <=> arg.conf >= arg.buy
           /\ d = "SELL" <=> (arg.conf < arg.buy /\ arg.conf <= arg.sell)
           /\ d = "HOLD" <=> (arg.conf < arg.buy /\ arg.conf > arg.sell)

\* A confidence on the buy threshold that is also at or under the sell
\* threshold is classified BUY.
C8_Witness ==
    /\ ret = << "BUY" >>
    /\ arg.conf = arg.buy
    /\ arg.conf <= arg.sell

\* The price evaluation of symbol s is complete: it has a baseline, and the
\* quote of this cycle either is that baseline (first seen, or alerted and
\* reset) or lies within the threshold of it.
PriceSettled(s) ==
    /\ s \in DOMAIN BASELINE_PRICES
    /\ \/ BASELINE_PRICES[s] = prices[s]
       \/ /\ BASELINE_PRICES[s] # 0
          /\ ~should_alert_price(Ratio(prices[s], BASELINE_PRICES[s]), PRICE_THRESH)

\* C9: once the sentiment evaluation of any symbol has begun, the price loop
\* has gone through every quote of the cycle, alerts and resets included.
C9_PricesBeforeSentiment ==
    results # EmptyDict
    => /\ i > Len(Keys(prices))
       /\ \A s \in DOMAIN prices : PriceSettled(s)

\* Sentiment has begun for one symbol only, after both quotes were evaluated
\* and an alert was emitted.
C9_Witness ==
    /\ pc = "gather"
    /\ Cardinality(DOMAIN results) = 1
    /\ DOMAIN prices = Symbols
    /\ alerts # << >>

\* C10: while a cycle after the first runs its steps, the file holds the
\* complete document of the cycle before it.
C10_NoOverlappingCycles ==
    (cycle >= 2 /\ pc \in {"prices", "gather", "store", "export"})
    => /\ file.status = "complete"
       /\ file.timestamp = cycle - 1

\* The second cycle is in its store loop over the document of the first.
C10_Witness ==
    /\ cycle = 2
    /\ pc = "store"
    /\ file.status = "complete"
    /\ file.timestamp = 1

\* The position of a symbol in the watch list.
Pos(s) == CHOOSE k \in 1..Len(WATCH) : WATCH[k] = s

\* C11: the alerts of a cycle are in watch-list order with at most one per
\* symbol; each alerted symbol has its baseline and last-alert time reset, and
\* all of them precede the symbol the price loop evaluates next.
C11_AlertsInWatchOrder ==
    \A k \in 1..Len(alerts) :
       LET s == alerts[k].symbol
       IN  /\ \A l \in 1..Len(alerts) : k < l => Pos(s) < Pos(alerts[l].symbol)
           /\ BASELINE_PRICES[s] = prices[s]
           /\ s \in DOMAIN LAST_ALERT /\ LAST_ALERT[s] = cycle
           /\ pc = "prices" => Pos(s) < Pos(CurSymbol)

\* Both symbols alerted in one cycle on real moves.
C11_Witness ==
    /\ PRICE_THRESH > 0
    /\ Len(alerts) = 2
    /\ alerts[1].symbol = WATCH[1]
    /\ alerts[2].symbol = WATCH[2]
    /\ alerts[1].price # alerts[1].prev_close

\* C12: once a document has been published, a read that runs while
\* export_to_json is writing the next one still gets a complete document.
C12_AtomicPublication ==
    [][ (ret' # ret /\ cycle >= 2 /\ pc \in {"export", "dump"})
        => ~ret'[1].failed ]_vars

\* C13: an observation of a symbol with a stored baseline that emits no alert
\* leaves every baseline and last-alert time as they were, so drift adds up
\* against the same baseline; the observation whose drift from it reaches the
\* threshold emits exactly one alert and resets that symbol alone.
C13_SubThresholdMovesAccumulate ==
    [][ (pc = "prices" /\ CurSymbol \in DOMAIN BASELINE_PRICES)
        => LET baseline == BASELINE_PRICES[CurSymbol]
           IN  /\ ~AlertFired
                  => /\ BASELINE_PRICES' = BASELINE_PRICES
                     /\ LAST_ALERT' = LAST_ALERT
               /\ AlertFired
                  => /\ SubSeq(alerts', 1, Len(alerts)) = alerts
                     /\ BASELINE_PRICES' = Put(BASELINE_PRICES, CurSymbol, CurPrice)
                     /\ LAST_ALERT' = Put(LAST_ALERT, CurSymbol, cycle)
               /\ (baseline # 0
                   /\ Abs(CurPrice - baseline) * 1000 >= PRICE_THRESH * Abs(baseline))
                  => AlertFired ]_vars

\* An alert against a baseline that the previous cycle's observation had
\* drifted from without alerting.
C13_Witness ==
    /\ PRICE_THRESH > 0
    /\ pc \in {"prices", "gather"}
    /\ \E k \in 1..Len(alerts) :
          LET a == alerts[k]
          IN  /\ a.symbol \in DOMAIN LATEST_ANALYSIS
              /\ LET e == LATEST_ANALYSIS[a.symbol]
                 IN  /\ e.last_updated = cycle - 1
                     /\ e.price # << >>
                     /\ e.change_from_baseline.num # 0
                     /\ a.prev_close = RoundHalfEven(e.change_from_baseline.den, 10)

\* C14: LAST_ALERT is written exactly by the steps that emit a price alert,
\* and observing the same price again in the cycle right after an alert at
\* that price emits no alert.
C14_NoRefireForSameMovement ==
    [][ /\ (LAST_ALERT' # LAST_ALERT) <=> AlertFired
        /\ (/\ pc = "prices"
            /\ CurSymbol \in DOMAIN LAST_ALERT
            /\ LAST_ALERT[CurSymbol] = cycle - 1
            /\ CurSymbol \in DOMAIN BASELINE_PRICES
            /\ BASELINE_PRICES[CurSymbol] = CurPrice)
           => ~AlertFired ]_vars

\* C15: the rounding to 2 decimals lives in the emitted PriceAlert only: the
\* alert decision is the comparison of the unrounded change with the
\* threshold, and the baseline an alert leaves is the unrounded current price,
\* while the alert itself carries the rounded price, baseline and change.
C15_RoundingIsCosmetic ==
    [][ (pc = "prices" /\ CurSymbol \in DOMAIN BASELINE_PRICES
                       /\ BASELINE_PRICES[CurSymbol] # 0)
        => LET baseline == BASELINE_PRICES[CurSymbol]
               unrounded == Abs(CurPrice - baseline) * 1000 >= PRICE_THRESH * Abs(baseline)
           IN  /\ AlertFired <=> unrounded
               /\ AlertFired
                  => LET a == alerts'[Len(alerts')]
                     IN  /\ BASELINE_PRICES'[CurSymbol] = CurPrice
                         /\ a.price = RoundHalfEven(CurPrice, 10)
                         /\ a.prev_close = RoundHalfEven(baseline, 10)
                         /\ a.change_pct =
                               RoundHalfEven((CurPrice - baseline) * 10000, baseline)
               /\ ~AlertFired => BASELINE_PRICES' = BASELINE_PRICES ]_vars

\* A price step has left a symbol without an alert although the prices as an
\* alert would show them, rounded to the cent, are a threshold apart.
C15_Witness ==
    /\ pc = "gather"
    /\ PRICE_THRESH > 0
    /\ \E s \in DOMAIN prices \cap DOMAIN BASELINE_PRICES :
          LET shown == RoundHalfEven(prices[s], 10)
              shown_baseline == RoundHalfEven(BASELINE_PRICES[s], 10)
          IN  /\ \A k \in 1..Len(alerts) : alerts[k].symbol # s
              /\ BASELINE_PRICES[s] # prices[s]
              /\ shown_baseline # 0
              /\ Abs(shown - shown_baseline) * 1000 >= PRICE_THRESH * shown_baseline

\* The number of texts that contain the word.
Occurrences(texts, word) == Cardinality({t \in 1..Len(texts) : word \in texts[t]})

VocabIndex(word) == CHOOSE k \in 1..Len(Vocab) : Vocab[k] = word

\* C16: explain_topics returns at most 5 words, each with its count divided by
\* the total count of the returned words, rounded to 3 decimals, so the values
\* of a non-empty result sum to 1 up to the rounding; the result is empty when
\* no vocabulary word occurs.
C16_TopicsNormalisedOverKept ==
    ret # << >>
    => LET topics == ret[1]
           kept_total == SumSeq([k \in 1..Len(topics) |-> Occurrences(arg, topics[k].word)])
           sum == SumSeq([k \in 1..Len(topics) |-> topics[k].value])
       IN  /\ Len(topics) <= 5
           /\ topics = << >> <=> \A w \in VocabWords : Occurrences(arg, w) = 0
           /\ \A k \in 1..Len(topics) :
                 topics[k].value =
                    RoundHalfEven(Occurrences(arg, topics[k].word) * 1000, kept_total)
           /\ topics # << >> => Abs(sum - 1000) <= Len(topics)

\* C17: the words explain_topics returns are ranked by count, and words of
\* equal count by their place in the vocabulary: a returned word comes before
\* every word of the same count that is later in the vocabulary, and no word
\* is left out in favour of a word of the same count later in the vocabulary.
C17_TiesInVocabularyOrder ==
    ret # << >>
    => LET topics == ret[1]
           kept == {topics[k].word : k \in 1..Len(topics)}
       IN  /\ \A k, l \in 1..Len(topics) :
                 (k < l /\ Occurrences(arg, topics[k].word) = Occurrences(arg, topics[l].word))
                 => VocabIndex(topics[k].word) < VocabIndex(topics[l].word)
           /\ \A w \in VocabWords \ kept : \A v \in kept :
                 (Occurrences(arg, w) > 0 /\ Occurrences(arg, w) = Occurrences(arg, v))
                 => VocabIndex(v) < VocabIndex(w)

\* Distance of a confidence from 0.5, and its side of 0.5.
FromHalf(conf) == Abs(conf - FP \div 2)

SameSide(c1, c2) == (c1 > FP \div 2) = (c2 > FP \div 2)

Alerted(s) == \E k \in 1..Len(alerts) : alerts[k].symbol = s

C20_HistoryIsLastTenExchanges ==
    [][ LET history == ret'.conversation_history
            asked == arg'.queries
            kept == Min(HistoryLimit \div 2, Len(asked))
        IN  /\ Len(history) <= HistoryLimit
            /\ Len(history) % 2 = 0
            /\ Len(history) = 2 * kept
            /\ \A p \in 1..kept :
                  LET k == asked[Len(asked) - kept + p]
                  IN  /\ history[2 * p - 1] = UserMessage(k)
                      /\ history[2 * p].role = "assistant"
                      /\ history[2 * p].content[1] = k
            /\ arg'.user_input \in ClearCommands => history = << >>
            /\ arg'.user_input = "" => history = ret.conversation_history ]_vars

\* More than 10 queries have been asked since the last clear: the oldest
\* exchange is gone and the history starts with the tenth most recent query.
C20_Witness ==
    /\ pc = "idle" /\ cycle = 0
    /\ Len(arg.queries) > HistoryLimit \div 2
    /\ Len(ret.conversation_history) = HistoryLimit
    /\ ret.conversation_history[1] = UserMessage(arg.queries[Len(arg.queries) - HistoryLimit \div 2 + 1])
    /\ ret.conversation_history[1] # UserMessage(arg.queries[1])

====
